---- MODULE Spec2Model ----
(***************************************************************************)
(* TeleMinion V2: the discovery / transfer / reconciliation pipeline.      *)
(*                                                                         *)
(* The record store (tables "channels" and "files"), the in-process        *)
(* download queue, the object store and the three background tasks         *)
(* (channel_scanner, download_worker, self_healing_task) together with the *)
(* operator's HTTP actions (approve, retry, manual scan) and the process   *)
(* start-up (start_background_tasks / recover_queue).                      *)
(*                                                                         *)
(* Every coroutine is cut at its awaits that reach the network or the      *)
(* database: one action is the code between two such suspension points.    *)
(* The record store is assumed available, except in the one step that says *)
(* otherwise (WorkerTakeLost): the except-branches that only log a failed  *)
(* SQL statement are not modelled.                                         *)
(***************************************************************************)
EXTENDS Integers, Sequences, FiniteSets, TLC

VARIABLES
    nmsgs,      \* the source: nmsgs[c] messages, ids 1..nmsgs[c], exist in channel c
    content,    \* the source: content[m] is the SHA-256 class of message m's payload
    channels,   \* table channels: c -> [last_scanned_message_id, is_active]
    files,      \* table files: sequence of rows, the SERIAL id is the index
    scanner,    \* channel_scanner task: its position and locals
    queue,      \* app.state.download_queue (asyncio.Queue of file ids)
    worker,     \* download_worker task: its position and locals
    staging,    \* local files under DOWNLOAD_PATH, by file id
    objects,    \* the object store: set of keys <<bucket, channel_id, message_id>>
    healer,     \* self_healing_task: its position and locals
    boot,       \* the process: its start-up phase
    worker2,    \* a download_worker task created by a second start_background_tasks
    starts,     \* start_background_tasks: its invocations and app.state.background_tasks
    puts        \* download_queue.put calls suspended on the full queue

vars == <<nmsgs, content, channels, files, scanner, queue, worker, staging,
          objects, healer, boot, worker2, starts, puts>>

---------------------------------------------------------------------------
(* Bounds of the model *)

\* channels known to the record store
MaxChan == 1
\* messages a channel can hold
MaxMsg == 3
\* stands for scan_limit = 500 of scan_channel, scaled to the model's channels
ScanLimit == 2
\* ids the queue holds at most in the model (the code's maxsize is 1000)
MaxQueue == 2
\* failures counted per row: retry_count stays at or below RetryCap
RetryCap == 3
\* messages the channel holds when the whole pipeline is run
MainMsgs == 2
\* invocations of start_background_tasks that can be under way at once
MaxCalls == 2
\* requests that can be suspended in download_queue.put at once
MaxPuts == 2
\* channels of the record store when the scan cycle is studied
CycleChans == 2

(* Program constants *)

\* settings.MAX_RETRY_COUNT
MAX_RETRY_COUNT == 3

Channels == 1 .. MaxChan
Msgs == 1 .. MaxMsg

NULL == "NULL"
NoPath == <<>>
NoHash == 0
NoError == <<>>

PENDING == "PENDING"
QUEUED == "QUEUED"
DOWNLOADING == "DOWNLOADING"
UPLOADING == "UPLOADING"
COMPLETED == "COMPLETED"
FAILED == "FAILED"
FAILED_PERMANENT == "FAILED_PERMANENT"

FileStatus == {PENDING, QUEUED, DOWNLOADING, UPLOADING, COMPLETED, FAILED, FAILED_PERMANENT}

CATEGORIES == {"messages", "songs", "ror", "books"}

---------------------------------------------------------------------------
(* Helpers *)

Max2(a, b) == IF a >= b THEN a ELSE b

Min2(a, b) == IF a <= b THEN a ELSE b

Range(s) == {s[i] : i \in DOMAIN s}

Ids == DOMAIN files

---------------------------------------------------------------------------
(* The source: what a message carries *)

\* document.mime_type of message m, as <<type, subtype>> for "type/subtype"; <<>>
\* for a message without a document (message.media is none, or a photo)
MimeOf(m) ==
    CASE m % 6 = 1 -> <<"audio", "mpeg">>
      [] m % 6 = 2 -> <<"application", "pdf">>
      [] m % 6 = 3 -> <<"video", "mp4">>
      [] m % 6 = 4 -> <<"audio", "ogg">>
      [] m % 6 = 5 -> <<"application", "zip">>
      [] OTHER     -> <<>>

\* mime_type.startswith("audio/")
IsAudio(mime) == Len(mime) = 2 /\ mime[1] = "audio"

\* mime_type == "application/pdf"
IsPdf(mime) == mime = <<"application", "pdf">>

get_category_for_mime(mime) ==
    IF IsAudio(mime) THEN "messages"
    ELSE IF IsPdf(mime) THEN "ror"
    ELSE NULL

\* a get_file_info without the check of the type
get_file_info_any(m) ==
    IF IsPdf(MimeOf(m)) THEN "ror" ELSE "messages"

\* get_file_info: NULL for an unsupported message, else the candidate's category
get_file_info(m) ==
    IF ~IsAudio(MimeOf(m)) /\ ~IsPdf(MimeOf(m)) THEN NULL
    ELSE get_category_for_mime(MimeOf(m))

---------------------------------------------------------------------------
(* Record store: table files *)

\* NOW() of a statement: later than every stored timestamp
Now(fs) == 1 + Max2(0, CHOOSE t \in {0} \cup {fs[i].updated_at : i \in DOMAIN fs} :
                         \A i \in DOMAIN fs : fs[i].updated_at <= t)

\* A timestamp is read of QUEUED rows only (get_queued_file_ids), and only for its
\* order; every statement that writes QUEUED writes updated_at = NOW() with it. So
\* the stamps are kept as ranks among the QUEUED rows, and as 0 on the other rows.
Ranked(fs) ==
    [i \in DOMAIN fs |->
        [fs[i] EXCEPT !.updated_at =
            IF fs[i].status # QUEUED THEN 0
            ELSE 1 + Cardinality({fs[j].updated_at :
                        j \in {x \in DOMAIN fs : /\ fs[x].status = QUEUED
                                                 /\ fs[x].updated_at < fs[i].updated_at}})]]

NewRow(c, m, cat, t) ==
    [channel_id |-> c, message_id |-> m, status |-> PENDING,
     destination_category |-> cat, minio_path |-> NoPath, content_hash |-> NoHash,
     retry_count |-> 0, error_message |-> NoError, updated_at |-> t]

HasKey(fs, c, m) == \E i \in DOMAIN fs : fs[i].channel_id = c /\ fs[i].message_id = m

\* an INSERT without the ON CONFLICT clause on a table without the UNIQUE constraint
insert_file_always(fs, c, m, cat) ==
    Ranked(Append(fs, NewRow(c, m, cat, Now(fs))))

\* an INSERT whose conflict clause writes the new values over the existing row
insert_file_reset(fs, c, m, cat) ==
    IF HasKey(fs, c, m)
    THEN Ranked([i \in DOMAIN fs |->
                    IF fs[i].channel_id = c /\ fs[i].message_id = m
                    THEN NewRow(c, m, cat, Now(fs)) ELSE fs[i]])
    ELSE Ranked(Append(fs, NewRow(c, m, cat, Now(fs))))

\* INSERT ... ON CONFLICT (channel_id, message_id) DO NOTHING
insert_file(fs, c, m, cat) ==
    IF HasKey(fs, c, m) THEN fs
    ELSE Ranked(Append(fs, NewRow(c, m, cat, Now(fs))))

---------------------------------------------------------------------------
(* Record store: table channels *)

\* the resume point (the id after the highest one) written in place of the highest id
update_channel_last_scanned_next(chs, c, m) ==
    [chs EXCEPT ![c].last_scanned_message_id = m + 1]

\* UPDATE channels SET last_scanned_message_id = $2 WHERE id = $1
update_channel_last_scanned(chs, c, m) ==
    [chs EXCEPT ![c].last_scanned_message_id = m]

\* SELECT * FROM channels WHERE is_active ORDER BY name: the ids, ascending
RECURSIVE ActiveFrom(_, _)
ActiveFrom(chs, c) ==
    IF c \notin DOMAIN chs THEN <<>>
    ELSE (IF chs[c].is_active
          THEN <<[id |-> c, last_scanned_message_id |-> chs[c].last_scanned_message_id]>>
          ELSE <<>>) \o ActiveFrom(chs, c + 1)

\* the same SELECT without its WHERE clause
get_all_channels(chs) ==
    [c \in DOMAIN chs |-> [id |-> c, last_scanned_message_id |-> chs[c].last_scanned_message_id]]

get_active_channels(chs) == ActiveFrom(chs, 1)

\* the id column of a list of channel rows
ChannelIds(rows) == [i \in DOMAIN rows |-> rows[i].id]

\* UPDATE channels SET is_active = false WHERE id = $1
deactivate_channel(chs, c) == [chs EXCEPT ![c].is_active = FALSE]

\* INSERT INTO channels ... ON CONFLICT (id) DO UPDATE SET is_active = true, for a
\* channel the table knows
insert_channel(chs, c) == [chs EXCEPT ![c].is_active = TRUE]

---------------------------------------------------------------------------
(* scanner.py *)

\* iter_messages(entity, limit, min_id): the ids above min_id, newest first
IterMessages(n, min_id, limit) ==
    [i \in 1 .. Min2(limit, Max2(0, n - min_id)) |-> n - i + 1]

\* what one call enumerates when nothing fails
ScanCandidates(n, last_message_id, full_scan) ==
    IF full_scan THEN IterMessages(n, 0, n)
    ELSE IterMessages(n, last_message_id, ScanLimit)

\* the loop body over the messages examined, in order
RECURSIVE ScanInsert(_, _, _)
ScanInsert(fs, c, seen) ==
    IF seen = <<>> THEN fs
    ELSE ScanInsert(IF get_file_info(Head(seen)) = NULL THEN fs
                    ELSE insert_file(fs, c, Head(seen), get_file_info(Head(seen))),
                    c, Tail(seen))

\* max_message_id = max(max_message_id, message.id) over the messages examined
RECURSIVE ScanMaxId(_, _)
ScanMaxId(last_message_id, seen) ==
    IF seen = <<>> THEN last_message_id
    ELSE ScanMaxId(Max2(last_message_id, Head(seen)), Tail(seen))

\* a scan_channel without its except branches: what stops the enumeration is raised
\* to the caller
scan_channel_raises(fs, c, n, last_message_id, full_scan, k) ==
    LET seen == SubSeq(ScanCandidates(n, last_message_id, full_scan), 1, k)
        fs2  == ScanInsert(fs, c, seen)
    IN  [files |-> fs2, new_files |-> Len(fs2) - Len(fs),
         max_message_id |-> ScanMaxId(last_message_id, seen), seen |-> seen,
         raised |-> k < Len(ScanCandidates(n, last_message_id, full_scan))]

\* scan_channel examining the first k candidates (k short of all: an exception,
\* caught inside scan_channel; k = 0 also stands for a failed entity resolution).
\* raised: an exception leaves the call
scan_channel(fs, c, n, last_message_id, full_scan, k) ==
    LET seen == SubSeq(ScanCandidates(n, last_message_id, full_scan), 1, k)
        fs2  == ScanInsert(fs, c, seen)
    IN  [files |-> fs2, new_files |-> Len(fs2) - Len(fs),
         max_message_id |-> ScanMaxId(last_message_id, seen), seen |-> seen,
         raised |-> FALSE]

\* channel_scanner's locals: active is the list read at the start of the cycle, todo
\* what is left of it, seen the list of messages its last scan_channel examined;
\* done: the channels scanned in this cycle, failed: those whose scan stopped short
\* (history, read by the properties only)
ScannerIdle ==
    [pc |-> "sleep", active |-> <<>>, todo |-> <<>>, chan |-> 0, last_id |-> 0,
     new_count |-> 0, seen |-> <<>>, done |-> <<>>, failed |-> {}]

\* channel_scanner: a cycle begins, the active channels are read
ScannerBegin ==
    /\ boot.phase = "running"
    /\ scanner.pc = "sleep"
    /\ get_active_channels(channels) # <<>>
    /\ scanner' = [scanner EXCEPT !.pc = "scan",
                                  !.active = get_active_channels(channels),
                                  !.todo = get_active_channels(channels),
                                  !.done = <<>>, !.failed = {}]
    /\ UNCHANGED <<nmsgs, content, channels, files, queue, worker, staging, objects, healer, boot, worker2, starts, puts>>

\* channel_scanner: the next channel of the cycle is scanned and its watermark
\* written; an exception that reaches the loop ends the cycle (except Exception)
ScannerChannel ==
    /\ scanner.pc = "scan"
    /\ LET ch == Head(scanner.todo)
           c  == ch.id
           last_id == ch.last_scanned_message_id
       IN \E k \in 0 .. Len(ScanCandidates(nmsgs[c], last_id, FALSE)) :
            LET r == scan_channel(files, c, nmsgs[c], last_id, FALSE, k)
                rest == IF r.raised THEN <<>> ELSE Tail(scanner.todo)
            IN  /\ files' = r.files
                /\ channels' = IF ~r.raised /\ r.max_message_id > last_id
                               THEN update_channel_last_scanned(channels, c, r.max_message_id)
                               ELSE channels
                /\ scanner' = [pc |-> IF rest = <<>> THEN "sleep" ELSE "scan",
                               active |-> scanner.active,
                               todo |-> rest,
                               chan |-> c, last_id |-> last_id,
                               new_count |-> r.new_files, seen |-> r.seen,
                               done |-> Append(scanner.done, c),
                               failed |-> IF k < Len(ScanCandidates(nmsgs[c], last_id, FALSE))
                                          THEN scanner.failed \cup {c} ELSE scanner.failed]
    /\ UNCHANGED <<nmsgs, content, queue, worker, staging, objects, healer, boot, worker2, starts, puts>>

\* a route that writes the watermark as the periodic loop does
KeepMaxId_written(chs, c, max_id) ==
    IF max_id > chs[c].last_scanned_message_id
    THEN update_channel_last_scanned(chs, c, max_id)
    ELSE chs

\* new_count, _ = await scan_channel(...): the max id of the result is dropped and
\* table channels is not written
KeepMaxId(chs, c, max_id) == chs

\* routes/channels.py scan_channel_now
ScanChannelNow(c) ==
    /\ boot.http
    /\ \E k \in 0 .. Len(ScanCandidates(nmsgs[c], channels[c].last_scanned_message_id, FALSE)) :
         LET r == scan_channel(files, c, nmsgs[c], channels[c].last_scanned_message_id, FALSE, k)
         IN  /\ files' = r.files
             /\ channels' = KeepMaxId(channels, c, r.max_message_id)
    /\ UNCHANGED <<nmsgs, content, scanner, queue, worker, staging, objects, healer, boot, worker2, starts, puts>>

\* scan_channel(full_scan=True): the initial import, min_id = 0 and no limit
FullScan(c) ==
    /\ \E k \in 0 .. Len(ScanCandidates(nmsgs[c], channels[c].last_scanned_message_id, TRUE)) :
         files' = scan_channel(files, c, nmsgs[c], channels[c].last_scanned_message_id, TRUE, k).files
    /\ UNCHANGED <<nmsgs, content, channels, scanner, queue, worker, staging, objects, healer, boot, worker2, starts, puts>>

\* routes/channels.py remove_channel
DeactivateChannel(c) ==
    /\ boot.http
    /\ channels' = deactivate_channel(channels, c)
    /\ UNCHANGED <<nmsgs, content, files, scanner, queue, worker, staging, objects, healer, boot, worker2, starts, puts>>

\* routes/channels.py add_channel, of a channel that was removed
AddChannel(c) ==
    /\ boot.http
    /\ ~channels[c].is_active
    /\ channels' = insert_channel(channels, c)
    /\ UNCHANGED <<nmsgs, content, files, scanner, queue, worker, staging, objects, healer, boot, worker2, starts, puts>>

\* the source: a message is published in channel c
PostMessage(c) ==
    /\ nmsgs[c] < MaxMsg
    /\ nmsgs' = [nmsgs EXCEPT ![c] = @ + 1]
    /\ UNCHANGED <<content, channels, files, scanner, queue, worker, staging, objects, healer, boot, worker2, starts, puts>>

---------------------------------------------------------------------------
(* database.py: statements on table files *)

\* the row with the columns named in kw overwritten
Merge(row, kw) == [k \in DOMAIN row |-> IF k \in DOMAIN kw THEN kw[k] ELSE row[k]]

\* UPDATE files SET status = $2, updated_at = NOW(), <kwargs> WHERE id = $1
update_file_status(fs, file_id, status, kw) ==
    Ranked([fs EXCEPT ![file_id] =
                Merge(Merge(@, kw), [status |-> status, updated_at |-> Now(fs)])])

\* an UPDATE that touches the row and leaves retry_count as it is
increment_retry_count_lost(fs, file_id) ==
    Ranked([fs EXCEPT ![file_id] = Merge(@, [updated_at |-> Now(fs)])])

\* UPDATE files SET retry_count = retry_count + 1, updated_at = NOW() WHERE id = $1
increment_retry_count(fs, file_id) ==
    Ranked([fs EXCEPT ![file_id] =
                Merge(@, [retry_count |-> @.retry_count + 1, updated_at |-> Now(fs)])])

\* UPDATE files SET destination_category = $2, updated_at = NOW() WHERE id = $1
update_file_category(fs, file_id, category) ==
    Ranked([fs EXCEPT ![file_id] =
                Merge(@, [destination_category |-> category, updated_at |-> Now(fs)])])

\* SELECT id FROM files WHERE content_hash = $1, fetchrow: the rows it may return
\* (the statement has no ORDER BY; 0 stands for no row)
check_content_hash_exists(fs, h) ==
    IF \E i \in DOMAIN fs : fs[i].content_hash = h
    THEN {i \in DOMAIN fs : fs[i].content_hash = h}
    ELSE {0}

\* a reset that knows of DOWNLOADING only
reset_downloading_only(fs) ==
    Ranked([i \in DOMAIN fs |->
        IF fs[i].status = DOWNLOADING
        THEN Merge(fs[i], [status |-> QUEUED, updated_at |-> Now(fs)])
        ELSE fs[i]])

\* UPDATE files SET status = 'QUEUED', updated_at = NOW()
\*   WHERE status IN ('DOWNLOADING', 'UPLOADING')
reset_downloading_files(fs) ==
    Ranked([i \in DOMAIN fs |->
        IF fs[i].status \in {DOWNLOADING, UPLOADING}
        THEN Merge(fs[i], [status |-> QUEUED, updated_at |-> Now(fs)])
        ELSE fs[i]])

\* s with x put at the place its timestamp gives it (ties: behind the equal ones)
RECURSIVE InsertByTime(_, _, _)
InsertByTime(fs, s, x) ==
    IF s = <<>> THEN <<x>>
    ELSE IF fs[x].updated_at < fs[Head(s)].updated_at THEN <<x>> \o s
    ELSE <<Head(s)>> \o InsertByTime(fs, Tail(s), x)

RECURSIVE SortByTime(_, _)
SortByTime(fs, S) ==
    IF S = {} THEN <<>>
    ELSE LET x == CHOOSE y \in S : \A z \in S : y >= z
         IN  InsertByTime(fs, SortByTime(fs, S \ {x}), x)

\* SELECT id FROM files WHERE status = 'QUEUED' ORDER BY updated_at ASC
get_queued_file_ids(fs) ==
    SortByTime(fs, {i \in DOMAIN fs : fs[i].status = QUEUED})

\* SELECT id, minio_path, destination_category FROM files WHERE status = 'COMPLETED'
get_completed_files_for_healing(fs) ==
    {[id |-> i, minio_path |-> fs[i].minio_path,
      destination_category |-> fs[i].destination_category] :
        i \in {x \in DOMAIN fs : fs[x].status = COMPLETED}}

\* an UPDATE that resets the status and leaves minio_path
revert_file_keeps_path(fs, file_id) ==
    Ranked([fs EXCEPT ![file_id] = Merge(@, [status |-> PENDING, updated_at |-> Now(fs)])])

\* UPDATE files SET status = 'PENDING', minio_path = NULL, updated_at = NOW() WHERE id = $1
revert_file_to_pending(fs, file_id) ==
    Ranked([fs EXCEPT ![file_id] =
                Merge(@, [status |-> PENDING, minio_path |-> NoPath, updated_at |-> Now(fs)])])

---------------------------------------------------------------------------
(* config.py and the object store *)

get_bucket_for_category(category) ==
    CASE category = "messages" -> "bucket-messages"
      [] category = "songs"    -> "bucket-songs"
      [] category = "ror"      -> "bucket-ror"
      [] category = "books"    -> "bucket-books"

\* a path with the message before the channel
FullPath_swapped(bucket, channel_id, message_id) == <<bucket, message_id, channel_id>>

\* full_path = f"{bucket}/{channel_id}/{message_id}/{safe_name}"; the file name is
\* the message's own, so the key is given by bucket, channel and message
FullPath(bucket, channel_id, message_id) == <<bucket, channel_id, message_id>>

\* the content an object holds: the payload of the message it was transferred from
ObjectContent(key) == content[key[3]]

---------------------------------------------------------------------------
(* worker.py *)

ErrDuplicate(existing_id) == <<"Duplicate of file", existing_id>>
ErrFloodWait == <<"FloodWait: retry after", 0>>
ErrMaxRetries == <<"Max retries exceeded", 0>>
ErrText == <<"str(e)", 0>>
ErrNoCategory == <<"No valid category assigned", 0>>
ErrResolve == <<"Cannot resolve channel", 0>>
ErrConnection == <<"Cannot send requests while disconnected", 0>>

\* the row stands marked as a duplicate of another row
MarkedDuplicate(row) ==
    /\ row.status = FAILED_PERMANENT
    /\ row.error_message # NoError
    /\ row.error_message[1] = "Duplicate of file"

\* no invocation of start_background_tasks yet: pc[k] is the position of invocation k,
\* background_tasks the list app.state.background_tasks, recovered the number of
\* times recover_queue has filled the queue (history, read by the properties only)
StartsNone == [pc |-> [k \in 1 .. MaxCalls |-> "none"], background_tasks |-> <<>>, recovered |-> 0]

\* no put is suspended: waiting holds the ids of the suspended puts, resumed the id
\* of the suspended put that completed last (history, read by the properties only)
PutsNone == [waiting |-> <<>>, resumed |-> 0]

\* download_worker's position and the locals of download_and_upload_file; marked: the
\* row stood marked as a duplicate when its id was taken (history, read by the
\* properties only)
WorkerOff == [pc |-> "off", id |-> 0, category |-> NULL, marked |-> FALSE]

WorkerIdle == [pc |-> "idle", id |-> 0, category |-> NULL, marked |-> FALSE]

\* an except branch of download_and_upload_file has run and the call returns False:
\* download_worker calls task_done, sleeps a second and goes on with its loop
AfterError == WorkerIdle

\* the escalation compared with > in place of >=
HandleException_late(fs, file_id) ==
    LET fs2 == increment_retry_count(fs, file_id)
        retry_count == fs2[file_id].retry_count
    IN  IF retry_count > MAX_RETRY_COUNT
        THEN update_file_status(fs2, file_id, FAILED_PERMANENT, [error_message |-> ErrMaxRetries])
        ELSE update_file_status(fs2, file_id, FAILED, [error_message |-> ErrText])

\* the except Exception branch of download_and_upload_file
HandleException(fs, file_id) ==
    LET fs2 == increment_retry_count(fs, file_id)
        retry_count == fs2[file_id].retry_count
    IN  IF retry_count >= MAX_RETRY_COUNT
        THEN update_file_status(fs2, file_id, FAILED_PERMANENT, [error_message |-> ErrMaxRetries])
        ELSE update_file_status(fs2, file_id, FAILED, [error_message |-> ErrText])

\* a rate limit handled as any other exception
HandleFloodWait_counted(fs, file_id) ==
    HandleException(fs, file_id)

\* the except FloodWaitError branch of download_and_upload_file
HandleFloodWait(fs, file_id) ==
    update_file_status(fs, file_id, QUEUED, [error_message |-> ErrFloodWait])

\* a missing category handled as any other exception
HandleNoCategory_counted(fs, file_id) ==
    HandleException(fs, file_id)

\* the category check of download_and_upload_file fails
HandleNoCategory(fs, file_id) ==
    update_file_status(fs, file_id, FAILED, [error_message |-> ErrNoCategory])

\* a put that drops the item
put_nowait_lost(q, item) == q

\* download_queue.put(item) when the queue has room: the item goes to the end
put_nowait(q, item) == Append(q, item)

\* a get that takes the id put last
get_nowait_lifo(q) == [item |-> q[Len(q)], rest |-> SubSeq(q, 1, Len(q) - 1)]

\* download_queue.get() on a queue that holds an id: the id put first, and the queue
\* that is left
get_nowait(q) == [item |-> Head(q), rest |-> Tail(q)]

\* The steps of one download_worker task: w is the task's state before the step and
\* wn its state after it. There is one task unless start_background_tasks has
\* created a second one.

\* the task takes the next id; download_and_upload_file loads the row, checks its
\* category and writes DOWNLOADING
RunTake(w, wn) ==
    /\ w.pc = "idle"
    /\ queue # <<>>
    /\ LET file_id  == get_nowait(queue).item
           category == files[file_id].destination_category
       IN  /\ queue' = get_nowait(queue).rest
           /\ IF category = NULL \/ category \notin CATEGORIES
              THEN /\ files' = HandleNoCategory(files, file_id)
                   /\ wn = WorkerIdle
              ELSE /\ files' = update_file_status(files, file_id, DOWNLOADING, << >>)
                   /\ wn = [pc |-> "downloading", id |-> file_id, category |-> category,
                             marked |-> MarkedDuplicate(files[file_id])]
    /\ UNCHANGED <<nmsgs, content, channels, scanner, staging, objects, healer, boot, starts, puts>>

WorkerTake == RunTake(worker, worker') /\ UNCHANGED worker2

Worker2Take == RunTake(worker2, worker2') /\ UNCHANGED worker

\* the message is fetched and its payload staged; the hash is computed and looked up;
\* a hit on another row ends the run, else UPLOADING is written
RunDownloaded(w, wn) ==
    /\ w.pc = "downloading"
    /\ LET file_id == w.id
           content_hash == content[files[file_id].message_id]
       IN  \E existing_id \in check_content_hash_exists(files, content_hash) :
              IF existing_id # 0 /\ existing_id # file_id
              THEN /\ files' = update_file_status(files, file_id, FAILED_PERMANENT,
                                   [error_message |-> ErrDuplicate(existing_id),
                                    content_hash |-> content_hash])
                   /\ staging' = staging \ {file_id}
                   /\ wn = WorkerIdle
              ELSE /\ files' = update_file_status(files, file_id, UPLOADING,
                                   [content_hash |-> content_hash])
                   /\ staging' = staging \cup {file_id}
                   /\ wn = [w EXCEPT !.pc = "uploading"]
    /\ UNCHANGED <<nmsgs, content, channels, scanner, queue, objects, healer, boot, starts, puts>>

WorkerDownloaded == RunDownloaded(worker, worker') /\ UNCHANGED worker2

Worker2Downloaded == RunDownloaded(worker2, worker2') /\ UNCHANGED worker

\* a FloodWaitError leaves the try block before download_media has opened the local
\* file: the row goes back to QUEUED and the call returns
WorkerFloodWait ==
    /\ worker.pc = "downloading"
    /\ files' = HandleFloodWait(files, worker.id)
    /\ worker' = AfterError
    /\ UNCHANGED <<nmsgs, content, channels, scanner, queue, staging, objects, healer, boot, worker2, starts, puts>>

\* download_media raises FloodWaitError after it has opened the local file: the
\* except FloodWaitError branch removes nothing
WorkerFloodWaitMidDownload ==
    /\ worker.pc = "downloading"
    /\ files' = HandleFloodWait(files, worker.id)
    /\ staging' = staging \cup {worker.id}
    /\ worker' = AfterError
    /\ UNCHANGED <<nmsgs, content, channels, scanner, queue, objects, healer, boot, worker2, starts, puts>>

\* any other exception while resolving, fetching or downloading
WorkerDownloadFails ==
    /\ worker.pc = "downloading"
    /\ files[worker.id].retry_count < RetryCap
    /\ files' = HandleException(files, worker.id)
    /\ staging' = staging \ {worker.id}
    /\ worker' = AfterError
    /\ UNCHANGED <<nmsgs, content, channels, scanner, queue, objects, healer, boot, worker2, starts, puts>>

\* error_message = str(e) of the except Exception branch, for an exception of a
\* known kind
FailedWith(fs, file_id, e) ==
    IF fs[file_id].status = FAILED THEN [fs EXCEPT ![file_id].error_message = e] ELSE fs

\* get_entity fails by id, by PeerChannel and by username (or no username is stored):
\* the ValueError raised for it is caught by the except Exception branch
WorkerResolveFails ==
    /\ worker.pc = "downloading"
    /\ files[worker.id].retry_count < RetryCap
    /\ files' = FailedWith(HandleException(files, worker.id), worker.id, ErrResolve)
    /\ staging' = staging \ {worker.id}
    /\ worker' = AfterError
    /\ UNCHANGED <<nmsgs, content, channels, scanner, queue, objects, healer, boot, worker2, starts, puts>>

\* the connection to the source drops while the message is fetched or downloaded:
\* the ConnectionError is raised inside the try block and is caught by its except
\* Exception branch, so it never reaches the except ConnectionError of download_worker
WorkerDisconnected ==
    /\ worker.pc = "downloading"
    /\ files[worker.id].retry_count < RetryCap
    /\ files' = FailedWith(HandleException(files, worker.id), worker.id, ErrConnection)
    /\ staging' = staging \ {worker.id}
    /\ worker' = AfterError
    /\ UNCHANGED <<nmsgs, content, channels, scanner, queue, objects, healer, boot, worker2, starts, puts>>

\* lifespan's shutdown cancels the task: CancelledError is raised at the await the
\* task is suspended in. It is no Exception, so no except branch of
\* download_and_upload_file runs, and the loop of download_worker breaks.
\* partial: download_media had opened the local file
WorkerCancelled ==
    /\ boot.phase = "running"
    /\ worker.pc \notin {"off", "stopped"}
    /\ \E partial \in BOOLEAN :
         staging' = IF worker.pc = "downloading" /\ partial
                    THEN staging \cup {worker.id} ELSE staging
    /\ worker' = [worker EXCEPT !.pc = "stopped"]
    /\ boot' = [boot EXCEPT !.phase = "shutdown", !.http = FALSE]
    /\ UNCHANGED <<nmsgs, content, channels, files, scanner, queue, objects, healer, worker2, starts, puts>>

\* the task takes the next id and get_file_by_id raises a ConnectionError (the pool
\* cannot reach the record store): nothing is written, the error leaves
\* download_and_upload_file and download_worker's except ConnectionError branch goes
\* on to put the id back
WorkerTakeLost ==
    /\ worker.pc = "idle"
    /\ queue # <<>>
    /\ queue' = get_nowait(queue).rest
    /\ worker' = [pc |-> "requeue", id |-> get_nowait(queue).item, category |-> NULL,
                  marked |-> FALSE]
    /\ UNCHANGED <<nmsgs, content, channels, files, scanner, staging, objects, healer, boot, worker2, starts, puts>>

\* await download_queue.put(file_id) of that branch completes, which takes room in
\* the queue; the task sleeps and goes on with its loop
WorkerRequeue ==
    /\ worker.pc = "requeue"
    /\ Len(queue) < MaxQueue
    /\ queue' = put_nowait(queue, worker.id)
    /\ worker' = WorkerIdle
    /\ UNCHANGED <<nmsgs, content, channels, files, scanner, staging, objects, healer, boot, worker2, starts, puts>>

\* bucket_exists / make_bucket / fput_object succeed and the staged file is removed
RunUploaded(w, wn) ==
    /\ w.pc = "uploading"
    /\ objects' = objects \cup {FullPath(get_bucket_for_category(w.category),
                                         files[w.id].channel_id,
                                         files[w.id].message_id)}
    /\ staging' = staging \ {w.id}
    /\ wn = [w EXCEPT !.pc = "uploaded"]
    /\ UNCHANGED <<nmsgs, content, channels, files, scanner, queue, healer, boot, starts, puts>>

WorkerUploaded == RunUploaded(worker, worker') /\ UNCHANGED worker2

Worker2Uploaded == RunUploaded(worker2, worker2') /\ UNCHANGED worker

\* the object store raises
WorkerUploadFails ==
    /\ worker.pc = "uploading"
    /\ files[worker.id].retry_count < RetryCap
    /\ files' = HandleException(files, worker.id)
    /\ staging' = staging \ {worker.id}
    /\ worker' = AfterError
    /\ UNCHANGED <<nmsgs, content, channels, scanner, queue, objects, healer, boot, worker2, starts, puts>>

\* COMPLETED is written with the path and the hash
RunCompleted(w, wn) ==
    /\ w.pc = "uploaded"
    /\ files' = update_file_status(files, w.id, COMPLETED,
                    [minio_path |-> FullPath(get_bucket_for_category(w.category),
                                             files[w.id].channel_id,
                                             files[w.id].message_id),
                     content_hash |-> content[files[w.id].message_id]])
    /\ wn = [w EXCEPT !.pc = "notifying"]
    /\ UNCHANGED <<nmsgs, content, channels, scanner, queue, staging, objects, healer, boot, starts, puts>>

WorkerCompleted == RunCompleted(worker, worker') /\ UNCHANGED worker2

Worker2Completed == RunCompleted(worker2, worker2') /\ UNCHANGED worker

\* a failed notification handled as a failed transfer
notify_webhook_counted(fs, file_id, delivered) ==
    IF delivered THEN fs ELSE HandleException(fs, file_id)

\* notify_webhook posts the payload: a response other than 200 and an exception are
\* logged, and the caller drops the result; the record store is as it was
notify_webhook(fs, file_id, delivered) == fs

\* the notification is attempted, delivered or not, and the call returns True
RunNotified(w, wn) ==
    /\ w.pc = "notifying"
    /\ \E delivered \in BOOLEAN : files' = notify_webhook(files, w.id, delivered)
    /\ wn = WorkerIdle
    /\ UNCHANGED <<nmsgs, content, channels, scanner, queue, staging, objects, healer, boot, starts, puts>>

WorkerNotified == RunNotified(worker, worker') /\ UNCHANGED worker2

Worker2Notified == RunNotified(worker2, worker2') /\ UNCHANGED worker

---------------------------------------------------------------------------
(* routes/files.py: the operator *)

\* the application serves requests (it does not while lifespan's start-up runs)
Http == boot.http

\* the ids of s without the one at place j
RemoveAt(s, j) == SubSeq(s, 1, j - 1) \o SubSeq(s, j + 1, Len(s))

\* approve_file with the form's category (NULL: none given)
ApproveFile(file_id, category) ==
    /\ Http
    /\ file_id \in Ids
    /\ Len(queue) < MaxQueue
    /\ (category # NULL /\ category \in CATEGORIES) \/ files[file_id].destination_category # NULL
    /\ LET fs2 == IF category # NULL /\ category \in CATEGORIES
                  THEN update_file_category(files, file_id, category)
                  ELSE files
       IN  files' = update_file_status(fs2, file_id, QUEUED, << >>)
    /\ queue' = put_nowait(queue, file_id)
    /\ UNCHANGED <<nmsgs, content, channels, scanner, worker, staging, objects, healer, boot, worker2, starts, puts>>

\* retry_file
RetryFile(file_id) ==
    /\ Http
    /\ file_id \in Ids
    /\ Len(queue) < MaxQueue
    /\ files[file_id].status # FAILED_PERMANENT
    /\ files' = update_file_status(files, file_id, QUEUED, [error_message |-> NoError])
    /\ queue' = put_nowait(queue, file_id)
    /\ UNCHANGED <<nmsgs, content, channels, scanner, worker, staging, objects, healer, boot, worker2, starts, puts>>

\* approve_file on the full queue: QUEUED is written, then the handler is suspended
\* in download_queue.put
ApproveFileFull(file_id) ==
    /\ Http
    /\ file_id \in Ids
    /\ Len(queue) >= MaxQueue
    /\ Len(puts.waiting) < MaxPuts
    /\ files[file_id].destination_category # NULL
    /\ files' = update_file_status(files, file_id, QUEUED, << >>)
    /\ puts' = [puts EXCEPT !.waiting = Append(@, file_id)]
    /\ UNCHANGED <<nmsgs, content, channels, scanner, queue, worker, staging, objects, healer, boot, worker2, starts>>

\* retry_file on the full queue
RetryFileFull(file_id) ==
    /\ Http
    /\ file_id \in Ids
    /\ Len(queue) >= MaxQueue
    /\ Len(puts.waiting) < MaxPuts
    /\ files[file_id].status # FAILED_PERMANENT
    /\ files' = update_file_status(files, file_id, QUEUED, [error_message |-> NoError])
    /\ puts' = [puts EXCEPT !.waiting = Append(@, file_id)]
    /\ UNCHANGED <<nmsgs, content, channels, scanner, queue, worker, staging, objects, healer, boot, worker2, starts>>

\* a suspended put finds room in the queue and completes; the handler returns. Which
\* of the suspended puts runs first is the event loop's choice
PutResumes ==
    /\ Len(queue) < MaxQueue
    /\ \E j \in DOMAIN puts.waiting :
         /\ queue' = put_nowait(queue, puts.waiting[j])
         /\ puts' = [waiting |-> RemoveAt(puts.waiting, j), resumed |-> puts.waiting[j]]
    /\ UNCHANGED <<nmsgs, content, channels, files, scanner, worker, staging, objects, healer, boot, worker2, starts>>

---------------------------------------------------------------------------
(* healing.py *)

HealerOff == [pc |-> "off", batch |-> {}]

HealerIdle == [pc |-> "sleep", batch |-> {}]

\* bucket, object_path = minio_path.split('/', 1)
SplitPath(minio_path) == [bucket |-> Head(minio_path), object_path |-> Tail(minio_path)]

\* stat_object(bucket, object_path) answers; raised: it raises instead
check_file_exists_in_minio(objs, bucket, object_path, raised) ==
    IF raised THEN FALSE ELSE (<<bucket>> \o object_path) \in objs

\* self_healing_task wakes up and reads the COMPLETED rows
HealerBegin ==
    /\ healer.pc = "sleep"
    /\ get_completed_files_for_healing(files) # {}
    /\ healer' = [pc |-> "check", batch |-> get_completed_files_for_healing(files)]
    /\ UNCHANGED <<nmsgs, content, channels, files, scanner, queue, worker, staging, objects, boot, worker2, starts, puts>>

\* the next row of the batch is probed and, when the probe says no, reverted
HealerCheck ==
    /\ healer.pc = "check"
    /\ \E file \in healer.batch : \E raised \in BOOLEAN :
         /\ healer' = [pc |-> IF healer.batch = {file} THEN "sleep" ELSE "check",
                       batch |-> healer.batch \ {file}]
         /\ IF file.minio_path = NoPath \/ file.destination_category = NULL
            THEN files' = files
            ELSE LET parts == SplitPath(file.minio_path)
                 IN  IF check_file_exists_in_minio(objects, parts.bucket, parts.object_path, raised)
                     THEN files' = files
                     ELSE files' = revert_file_to_pending(files, file.id)
    /\ UNCHANGED <<nmsgs, content, channels, scanner, queue, worker, staging, objects, boot, worker2, starts, puts>>

\* the environment: an object is deleted from the store out of band
DeleteObject(key) ==
    /\ key \in objects
    /\ objects' = objects \ {key}
    /\ UNCHANGED <<nmsgs, content, channels, files, scanner, queue, worker, staging, healer, boot, worker2, starts, puts>>

---------------------------------------------------------------------------
(* main.py: the process *)

\* phase: where start-up stands; http: requests are served; stuck: the rows that
\* were in flight when the process started (history, read by the properties only)
BootRunning == [phase |-> "running", http |-> TRUE, stuck |-> {}]

\* the process dies and is started again: the queue and the tasks are gone, the
\* record store and the object store stay. lifespan calls start_background_tasks
\* itself when the session is authorized, else the application waits for the login
Restart ==
    /\ boot.phase = "running"
    /\ queue' = <<>>
    /\ worker' = WorkerOff
    /\ scanner' = [ScannerIdle EXCEPT !.pc = "off"]
    /\ healer' = HealerOff
    /\ staging' = {}
    /\ \E authorized \in BOOLEAN :
         boot' = [phase |-> IF authorized THEN "recover" ELSE "login",
                  http  |-> ~authorized,
                  stuck |-> {i \in Ids : files[i].status \in {DOWNLOADING, UPLOADING}}]
    /\ worker2' = WorkerOff
    /\ starts' = StartsNone
    /\ puts' = PutsNone
    /\ UNCHANGED <<nmsgs, content, channels, files, objects>>

\* routes/auth.py verify_code / verify_2fa: start_background_tasks is called
\* while the application serves requests
AuthVerified ==
    /\ boot.phase = "login"
    /\ boot' = [boot EXCEPT !.phase = "recover"]
    /\ UNCHANGED <<nmsgs, content, channels, files, scanner, queue, worker, staging, objects, healer, worker2, starts, puts>>

\* recover_queue: reset_downloading_files
RecoverReset ==
    /\ boot.phase = "recover"
    /\ files' = reset_downloading_files(files)
    /\ boot' = [boot EXCEPT !.phase = "enqueue"]
    /\ UNCHANGED <<nmsgs, content, channels, scanner, queue, worker, staging, objects, healer, worker2, starts, puts>>

\* recover_queue: get_queued_file_ids and the puts, for which the queue has room;
\* then the tasks are created
RecoverEnqueue ==
    /\ boot.phase = "enqueue"
    /\ Len(queue) + Len(get_queued_file_ids(files)) <= MaxQueue
    /\ queue' = queue \o get_queued_file_ids(files)
    /\ scanner' = ScannerIdle
    /\ healer' = HealerIdle
    /\ boot' = [boot EXCEPT !.phase = "started"]
    /\ UNCHANGED <<nmsgs, content, channels, files, worker, staging, objects, worker2, starts, puts>>

\* recover_queue with more QUEUED rows than the queue has room for: the puts fill the
\* queue and the next one suspends. No task is created before recover_queue returns,
\* so nothing takes an id from the queue
RecoverEnqueueFull ==
    /\ boot.phase = "enqueue"
    /\ Len(queue) + Len(get_queued_file_ids(files)) > MaxQueue
    /\ queue' = queue \o SubSeq(get_queued_file_ids(files), 1, MaxQueue - Len(queue))
    /\ boot' = [boot EXCEPT !.phase = "blocked"]
    /\ UNCHANGED <<nmsgs, content, channels, files, scanner, worker, staging, objects, healer, worker2, starts, puts>>

\* the created download_worker task runs for the first time: its loop begins, and
\* start-up is over
WorkerStart ==
    /\ boot.phase = "started"
    /\ worker' = WorkerIdle
    /\ boot' = BootRunning
    /\ UNCHANGED <<nmsgs, content, channels, files, scanner, queue, staging, objects, healer, worker2, starts, puts>>

---------------------------------------------------------------------------
(* main.py: start_background_tasks called by the login routes. The application   *)
(* serves requests, so invocations overlap at their awaits.                       *)

\* the tasks one invocation creates, in the order they are appended
CreatedTasks == <<"scanner", "worker", "healing", "backup">>

\* the tasks of one kind in app.state.background_tasks
TasksOf(kind) ==
    {i \in DOMAIN starts.background_tasks : starts.background_tasks[i] = kind}

\* verify_code / verify_2fa call start_background_tasks: the list of tasks is looked
\* at, and when it is empty the invocation goes on to await get_dialogs
StartCall(k) ==
    /\ boot.phase = "login"
    /\ boot.http
    /\ starts.pc[k] = "none"
    /\ starts' = [starts EXCEPT !.pc[k] = IF starts.background_tasks # <<>>
                                          THEN "returned" ELSE "warm"]
    /\ UNCHANGED <<nmsgs, content, channels, files, scanner, queue, worker, staging,
                   objects, healer, boot, worker2, puts>>

\* get_dialogs has answered or failed; recover_queue: reset_downloading_files
StartReset(k) ==
    /\ starts.pc[k] = "warm"
    /\ files' = reset_downloading_files(files)
    /\ starts' = [starts EXCEPT !.pc[k] = "enqueue"]
    /\ UNCHANGED <<nmsgs, content, channels, scanner, queue, worker, staging,
                   objects, healer, boot, worker2, puts>>

\* recover_queue: get_queued_file_ids and the puts; then the four tasks are created
\* and appended to the list. The model follows the first two download_worker tasks
StartEnqueue(k) ==
    /\ starts.pc[k] = "enqueue"
    /\ Len(queue) + Len(get_queued_file_ids(files)) <= MaxQueue
    /\ queue' = queue \o get_queued_file_ids(files)
    /\ starts' = [pc |-> [starts.pc EXCEPT ![k] = "returned"],
                  background_tasks |-> starts.background_tasks \o CreatedTasks,
                  recovered |-> starts.recovered + 1]
    /\ scanner' = ScannerIdle
    /\ healer' = HealerIdle
    /\ IF worker.pc = "off"
       THEN worker' = WorkerIdle /\ UNCHANGED worker2
       ELSE IF worker2.pc = "off"
       THEN worker2' = WorkerIdle /\ UNCHANGED worker
       ELSE UNCHANGED <<worker, worker2>>
    /\ UNCHANGED <<nmsgs, content, channels, files, staging, objects, boot, puts>>

---------------------------------------------------------------------------
(* The scanner alone, on channels that fill up while it runs *)

InitScan ==
    /\ nmsgs = [c \in Channels |-> 0]
    /\ content = [m \in Msgs |-> m]
    /\ channels = [c \in Channels |-> [last_scanned_message_id |-> 0, is_active |-> TRUE]]
    /\ files = <<>>
    /\ scanner = ScannerIdle
    /\ queue = <<>>
    /\ worker = WorkerIdle
    /\ staging = {}
    /\ objects = {}
    /\ healer = HealerIdle
    /\ boot = BootRunning
    /\ worker2 = WorkerOff
    /\ starts = StartsNone
    /\ puts = PutsNone

NextScan ==
    \/ ScannerBegin
    \/ ScannerChannel
    \/ \E c \in Channels : ScanChannelNow(c)
    \/ \E c \in Channels : FullScan(c)
    \/ \E c \in Channels : PostMessage(c)

SpecScan == InitScan /\ [][NextScan]_vars

---------------------------------------------------------------------------
(* The periodic scanner on several channels that the operator removes and adds    *)
(* again, with scans that fail                                                    *)

InitCycle ==
    /\ nmsgs = [c \in 1 .. CycleChans |-> MainMsgs]
    /\ content = [m \in Msgs |-> m]
    /\ channels = [c \in 1 .. CycleChans |-> [last_scanned_message_id |-> 0, is_active |-> TRUE]]
    /\ files = <<>>
    /\ scanner = ScannerIdle
    /\ queue = <<>>
    /\ worker = WorkerIdle
    /\ staging = {}
    /\ objects = {}
    /\ healer = HealerIdle
    /\ boot = BootRunning
    /\ worker2 = WorkerOff
    /\ starts = StartsNone
    /\ puts = PutsNone

NextCycle ==
    \/ ScannerBegin
    \/ ScannerChannel
    \/ \E c \in DOMAIN channels : DeactivateChannel(c)
    \/ \E c \in DOMAIN channels : AddChannel(c)

SpecCycle == InitCycle /\ [][NextCycle]_vars

---------------------------------------------------------------------------
(* Transfer: the worker, the operator and the process, on a channel whose       *)
(* messages all carry the same payload                                         *)

Init ==
    /\ nmsgs = [c \in Channels |-> MainMsgs]
    /\ content = [m \in Msgs |-> 1]
    /\ channels = [c \in Channels |-> [last_scanned_message_id |-> 0, is_active |-> TRUE]]
    /\ files = <<>>
    /\ scanner = ScannerIdle
    /\ queue = <<>>
    /\ worker = WorkerIdle
    /\ staging = {}
    /\ objects = {}
    /\ healer = HealerIdle
    /\ boot = BootRunning
    /\ worker2 = WorkerOff
    /\ starts = StartsNone
    /\ puts = PutsNone

Next ==
    \/ \E c \in Channels : ScanChannelNow(c)
    \/ WorkerTake
    \/ WorkerDownloaded
    \/ WorkerFloodWait
    \/ WorkerDownloadFails
    \/ WorkerUploaded
    \/ WorkerUploadFails
    \/ WorkerCompleted
    \/ WorkerNotified
    \/ \E i \in 1 .. MaxMsg : ApproveFile(i, NULL)
    \/ \E i \in 1 .. MaxMsg : RetryFile(i)
    \/ Restart
    \/ AuthVerified
    \/ RecoverReset
    \/ RecoverEnqueue
    \/ RecoverEnqueueFull
    \/ WorkerStart

Spec == Init /\ [][Next]_vars

---------------------------------------------------------------------------
(* Transfer of one row that an earlier schema left in the record store: the     *)
(* column destination_category was added to it by the migration and is NULL.    *)
(* The operator may name a category with the approval.                          *)

InitRun ==
    /\ nmsgs = [c \in Channels |-> MainMsgs]
    /\ content = [m \in Msgs |-> 1]
    /\ channels = [c \in Channels |-> [last_scanned_message_id |-> 0, is_active |-> TRUE]]
    /\ files = Ranked(<<NewRow(1, 2, NULL, 0)>>)
    /\ scanner = ScannerIdle
    /\ queue = <<>>
    /\ worker = WorkerIdle
    /\ staging = {}
    /\ objects = {}
    /\ healer = HealerIdle
    /\ boot = BootRunning
    /\ worker2 = WorkerOff
    /\ starts = StartsNone
    /\ puts = PutsNone

NextRun ==
    \/ WorkerTake
    \/ WorkerDownloaded
    \/ WorkerFloodWait
    \/ WorkerFloodWaitMidDownload
    \/ WorkerDownloadFails
    \/ WorkerUploaded
    \/ WorkerUploadFails
    \/ WorkerCompleted
    \/ WorkerNotified
    \/ \E i \in 1 .. MaxMsg : \E category \in {NULL, "messages"} : ApproveFile(i, category)
    \/ \E i \in 1 .. MaxMsg : RetryFile(i)

SpecRun == InitRun /\ [][NextRun]_vars

---------------------------------------------------------------------------
(* Transfer of that row when the source fails by kind and the process shuts down *)

NextFault ==
    \/ NextRun
    \/ WorkerResolveFails
    \/ WorkerDisconnected
    \/ WorkerCancelled

SpecFault == InitRun /\ [][NextFault]_vars

---------------------------------------------------------------------------
(* The operator approving and retrying faster than the worker transfers: two rows *)
(* the scanner has found, and a queue that fills up                               *)

QueueRows ==
    insert_file(insert_file(<<>>, 1, 1, get_file_info(1)), 1, 2, get_file_info(2))

InitQueue ==
    /\ nmsgs = [c \in Channels |-> MainMsgs]
    /\ content = [m \in Msgs |-> m]
    /\ channels = [c \in Channels |-> [last_scanned_message_id |-> MainMsgs, is_active |-> TRUE]]
    /\ files = QueueRows
    /\ scanner = ScannerIdle
    /\ queue = <<>>
    /\ worker = WorkerIdle
    /\ staging = {}
    /\ objects = {}
    /\ healer = HealerIdle
    /\ boot = BootRunning
    /\ worker2 = WorkerOff
    /\ starts = StartsNone
    /\ puts = PutsNone

NextQueue ==
    \/ \E i \in 1 .. MaxMsg : ApproveFile(i, NULL)
    \/ \E i \in 1 .. MaxMsg : ApproveFileFull(i)
    \/ \E i \in 1 .. MaxMsg : RetryFile(i)
    \/ \E i \in 1 .. MaxMsg : RetryFileFull(i)
    \/ PutResumes
    \/ WorkerTake
    \/ WorkerDownloaded
    \/ WorkerUploaded
    \/ WorkerCompleted
    \/ WorkerNotified

SpecQueue == InitQueue /\ [][NextQueue]_vars

---------------------------------------------------------------------------
(* Reconciliation: transfers without failures, the reconciler, and objects that  *)
(* disappear from the store; every message has a payload of its own              *)

InitHeal ==
    /\ nmsgs = [c \in Channels |-> MainMsgs]
    /\ content = [m \in Msgs |-> m]
    /\ channels = [c \in Channels |-> [last_scanned_message_id |-> 0, is_active |-> TRUE]]
    /\ files = <<>>
    /\ scanner = ScannerIdle
    /\ queue = <<>>
    /\ worker = WorkerIdle
    /\ staging = {}
    /\ objects = {}
    /\ healer = HealerIdle
    /\ boot = BootRunning
    /\ worker2 = WorkerOff
    /\ starts = StartsNone
    /\ puts = PutsNone

NextHeal ==
    \/ \E c \in Channels : ScanChannelNow(c)
    \/ \E i \in 1 .. MaxMsg : ApproveFile(i, NULL)
    \/ WorkerTake
    \/ WorkerDownloaded
    \/ WorkerUploaded
    \/ WorkerCompleted
    \/ WorkerNotified
    \/ HealerBegin
    \/ HealerCheck
    \/ \E key \in objects : DeleteObject(key)

SpecHeal == InitHeal /\ [][NextHeal]_vars

---------------------------------------------------------------------------
(* The login after a start without an authorized session: the record store holds  *)
(* two rows of an earlier run, one of them QUEUED; no task runs yet                *)

StartRows ==
    update_file_status(
        insert_file(insert_file(<<>>, 1, 1, get_file_info(1)), 1, 2, get_file_info(2)),
        1, QUEUED, << >>)

InitStart ==
    /\ nmsgs = [c \in Channels |-> MainMsgs]
    /\ content = [m \in Msgs |-> m]
    /\ channels = [c \in Channels |-> [last_scanned_message_id |-> MainMsgs, is_active |-> TRUE]]
    /\ files = StartRows
    /\ scanner = [ScannerIdle EXCEPT !.pc = "off"]
    /\ queue = <<>>
    /\ worker = WorkerOff
    /\ staging = {}
    /\ objects = {}
    /\ healer = HealerOff
    /\ boot = [phase |-> "login", http |-> TRUE, stuck |-> {}]
    /\ worker2 = WorkerOff
    /\ starts = StartsNone
    /\ puts = PutsNone

NextStart ==
    \/ \E k \in 1 .. MaxCalls : StartCall(k)
    \/ \E k \in 1 .. MaxCalls : StartReset(k)
    \/ \E k \in 1 .. MaxCalls : StartEnqueue(k)
    \/ \E i \in 1 .. MaxMsg : ApproveFile(i, NULL)
    \/ WorkerTake
    \/ WorkerDownloaded
    \/ WorkerUploaded
    \/ WorkerCompleted
    \/ WorkerNotified
    \/ Worker2Take
    \/ Worker2Downloaded
    \/ Worker2Uploaded
    \/ Worker2Completed
    \/ Worker2Notified

SpecStart == InitStart /\ [][NextStart]_vars

---------------------------------------------------------------------------
(* Discovery and transfer together: the three kinds of scan run over a channel    *)
(* whose rows the worker transfers, rejects as duplicates or fails                 *)

\* the row of message 1 after a transfer that failed once
RescanRows ==
    HandleException(
        update_file_status(insert_file(<<>>, 1, 1, get_file_info(1)), 1, DOWNLOADING, << >>), 1)

InitRescan ==
    /\ nmsgs = [c \in Channels |-> MainMsgs]
    /\ content = [m \in Msgs |-> 1]
    /\ channels = [c \in Channels |-> [last_scanned_message_id |-> 0, is_active |-> TRUE]]
    /\ files = RescanRows
    /\ scanner = ScannerIdle
    /\ queue = <<>>
    /\ worker = WorkerIdle
    /\ staging = {}
    /\ objects = {}
    /\ healer = HealerIdle
    /\ boot = BootRunning
    /\ worker2 = WorkerOff
    /\ starts = StartsNone
    /\ puts = PutsNone

NextRescan ==
    \/ ScannerBegin
    \/ ScannerChannel
    \/ \E c \in Channels : ScanChannelNow(c)
    \/ \E c \in Channels : FullScan(c)
    \/ \E i \in 1 .. MaxMsg : ApproveFile(i, NULL)
    \/ WorkerTake
    \/ WorkerDownloaded
    \/ WorkerUploaded
    \/ WorkerCompleted
    \/ WorkerNotified

SpecRescan == InitRescan /\ [][NextRescan]_vars

---------------------------------------------------------------------------
(* Reconciliation on a channel whose messages all carry the same payload *)

SpecHealSame == Init /\ [][NextHeal]_vars

---------------------------------------------------------------------------
(* The worker under failures of every kind, the record store out of reach among    *)
(* them, with the scheduling of the event loop: a task that can run does run, and  *)
(* every call to the source or the stores answers or raises                        *)

\* a step of download_worker between the take of an id and the return to the loop
WorkerRuns ==
    \/ WorkerDownloaded
    \/ WorkerFloodWait
    \/ WorkerFloodWaitMidDownload
    \/ WorkerDownloadFails
    \/ WorkerResolveFails
    \/ WorkerDisconnected
    \/ WorkerUploaded
    \/ WorkerUploadFails
    \/ WorkerCompleted
    \/ WorkerNotified
    \/ WorkerRequeue

\* download_worker takes an id from the queue
WorkerGets == WorkerTake \/ WorkerTakeLost

NextLive ==
    \/ WorkerGets
    \/ WorkerRuns
    \/ \E i \in 1 .. MaxMsg : \E category \in {NULL, "messages"} : ApproveFile(i, category)
    \/ \E i \in 1 .. MaxMsg : RetryFile(i)

SpecLive ==
    InitRun /\ [][NextLive]_vars /\ WF_vars(WorkerGets) /\ WF_vars(WorkerRuns)

---------------------------------------------------------------------------
(* Start-up with a record store that holds one row more than the queue has places: *)
(* the operator approves while the source limits the worker's rate, and the        *)
(* process is started again                                                        *)

\* the rows of the first n messages the scanner has found, over the channels
RECURSIVE ScannedRows(_)
ScannedRows(n) ==
    IF n = 0 THEN <<>>
    ELSE insert_file(ScannedRows(n - 1), ((n - 1) \div 2) + 1, ((n - 1) % 2) + 1,
                     get_file_info(((n - 1) % 2) + 1))

InitRecover ==
    /\ nmsgs = [c \in 1 .. CycleChans |-> MainMsgs]
    /\ content = [m \in Msgs |-> m]
    /\ channels = [c \in 1 .. CycleChans |-> [last_scanned_message_id |-> MainMsgs, is_active |-> TRUE]]
    /\ files = ScannedRows(MaxQueue + 1)
    /\ scanner = ScannerIdle
    /\ queue = <<>>
    /\ worker = WorkerIdle
    /\ staging = {}
    /\ objects = {}
    /\ healer = HealerIdle
    /\ boot = BootRunning
    /\ worker2 = WorkerOff
    /\ starts = StartsNone
    /\ puts = PutsNone

\* a step of the start-up
Recovers ==
    \/ RecoverReset
    \/ RecoverEnqueue
    \/ RecoverEnqueueFull
    \/ WorkerStart

NextRecover ==
    \/ \E i \in 1 .. MaxQueue + 1 : ApproveFile(i, NULL)
    \/ \E i \in 1 .. MaxQueue + 1 : ApproveFileFull(i)
    \/ PutResumes
    \/ WorkerTake
    \/ WorkerFloodWait
    \/ Restart
    \/ AuthVerified
    \/ Recovers

SpecRecover == InitRecover /\ [][NextRecover]_vars /\ WF_vars(Recovers)

---------------------------------------------------------------------------
(* Properties of discovery *)

Supported(m) == get_file_info(m) # NULL

Watermark(c) == channels[c].last_scanned_message_id

\* C3: there is at most one row of table files per (channel_id, message_id), so a
\* scan of a message that already has a row creates no row.
C3_OneRowPerMessage ==
    \A i \in Ids : \A j \in Ids :
        (files[i].channel_id = files[j].channel_id /\ files[i].message_id = files[j].message_id)
            => i = j

\* a periodic scan has examined supported messages that already had their row
C3_Witness ==
    /\ scanner.chan # 0
    /\ Cardinality({i \in DOMAIN scanner.seen : Supported(scanner.seen[i])}) > scanner.new_count
    /\ Len(files) >= 2

\* C4: a step never lowers a channel's watermark, and a step that changes it is the
\* periodic scan of that channel and leaves it at or below an id that scan examined.
C4_MonotonicWatermark ==
    [][\A c \in Channels :
          /\ channels'[c].last_scanned_message_id >= channels[c].last_scanned_message_id
          /\ channels'[c].last_scanned_message_id # channels[c].last_scanned_message_id
                => /\ scanner'.chan = c
                   /\ \E i \in DOMAIN scanner'.seen :
                         channels'[c].last_scanned_message_id <= scanner'.seen[i]]_vars

\* a scan that failed after its first message has advanced the watermark
C4_Witness ==
    /\ scanner.chan # 0
    /\ scanner.last_id = 0
    /\ Len(scanner.seen) = 1
    /\ Watermark(scanner.chan) >= 2

\* C5: every supported message at or below a channel's watermark has its row.
C5_NoMessageBelowWatermarkSkipped ==
    \A c \in Channels : \A m \in 1 .. Watermark(c) :
        Supported(m) => HasKey(files, c, m)

---------------------------------------------------------------------------
(* Properties of transfer *)

\* the worker's run of row x ends here with an exception other than FloodWaitError
FailureStep(x) ==
    /\ worker.id = x
    /\ WorkerDownloadFails \/ WorkerUploadFails

\* the worker's download of row x completes here: the hash is computed and looked up
DownloadCompletes(x) ==
    /\ worker.id = x
    /\ WorkerDownloaded

\* another row than x carries the hash of x's payload
HashHeldByOther(x) ==
    \E y \in Ids : y # x /\ files[y].content_hash = content[files[x].message_id]

\* C1: no two objects of the store hold the same content.
C1_OneObjectPerContent ==
    \A k1 \in objects : \A k2 \in objects :
        ObjectContent(k1) = ObjectContent(k2) => k1 = k2

\* C2: a row whose first download completes while another row carries the same hash
\* is marked FAILED_PERMANENT as a duplicate of another row, keeps its retry_count,
\* does not go on to UPLOADING and has no object written; and a run of the worker on
\* a row that stands so marked neither brings it to UPLOADING nor writes an object.
C2_DuplicateIsNotTransferred ==
    [][\A x \in Ids :
          /\ (DownloadCompletes(x) /\ files[x].content_hash = NoHash /\ HashHeldByOther(x))
                => /\ files'[x].status = FAILED_PERMANENT
                   /\ \E y \in Ids \ {x} : files'[x].error_message = ErrDuplicate(y)
                   /\ files'[x].retry_count = files[x].retry_count
                   /\ worker'.pc = "idle"
                   /\ objects' = objects
          /\ (worker.id = x /\ worker.marked)
                => /\ files'[x].status = UPLOADING => files[x].status = UPLOADING
                   /\ objects' = objects]_vars

\* C6: a failure that is no rate limit adds one to the row's retry_count and leaves
\* the row FAILED while the new count is below MAX_RETRY_COUNT, FAILED_PERMANENT else.
C6_RetryEscalation ==
    [][\A x \in Ids :
          FailureStep(x)
             => /\ files'[x].retry_count = files[x].retry_count + 1
                /\ files'[x].status = IF files[x].retry_count + 1 < MAX_RETRY_COUNT
                                       THEN FAILED ELSE FAILED_PERMANENT]_vars

\* a row has failed MAX_RETRY_COUNT times and is FAILED_PERMANENT by escalation
C6_Witness ==
    \E x \in Ids :
        /\ files[x].retry_count = MAX_RETRY_COUNT
        /\ files[x].status = FAILED_PERMANENT
        /\ files[x].error_message = ErrMaxRetries

\* C7: a row that is FAILED_PERMANENT stays FAILED_PERMANENT in every step but the
\* operator's approval.
C7_PermanentIsFinal ==
    [][(\E i \in 1 .. MaxMsg : ApproveFile(i, NULL))
         \/ \A x \in Ids : files[x].status = FAILED_PERMANENT
                               => files'[x].status = FAILED_PERMANENT]_vars

\* C8: a FAILED row has retry_count below MAX_RETRY_COUNT.
C8_FailedBelowMax ==
    \A x \in Ids : files[x].status = FAILED => files[x].retry_count < MAX_RETRY_COUNT

\* a row is FAILED after its last failure short of the escalation
C8_Witness ==
    \E x \in Ids :
        /\ files[x].status = FAILED
        /\ files[x].retry_count = MAX_RETRY_COUNT - 1

---------------------------------------------------------------------------
(* Properties of start-up *)

\* C9: when recover_queue has run, no row is DOWNLOADING or UPLOADING, and every row
\* that was so when the process started is QUEUED with its id in the queue.
C9_NoInFlightAfterRecovery ==
    boot.phase = "started"
        => /\ \A i \in Ids : files[i].status \notin {DOWNLOADING, UPLOADING}
           /\ \A i \in boot.stuck : files[i].status = QUEUED /\ i \in Range(queue)

\* recover_queue has run in a process that started with a row in flight
C9_Witness ==
    /\ boot.phase = "started"
    /\ boot.stuck # {}

\* C10: the step of recover_queue that fills the queue leaves in it the ids of the
\* QUEUED rows, each once, oldest updated first, and nothing else.
C10_QueueIsTheQueuedRows ==
    [][(boot.phase = "enqueue" /\ boot'.phase = "started")
          => queue' = get_queued_file_ids(files')]_vars

---------------------------------------------------------------------------
(* Properties of reconciliation *)

\* the reconciler probes entry f of its batch in this step
HealerProbes(f) ==
    /\ HealerCheck
    /\ healer'.batch = healer.batch \ {f}

\* C11: a cycle of the reconciler reads every COMPLETED row, and the probe of a
\* COMPLETED row whose object is not in the store leaves the row PENDING with no path.
C11_MissingObjectReverts ==
    [][/\ HealerBegin => \A x \in Ids : files[x].status = COMPLETED
                               => \E f \in healer'.batch : f.id = x
       /\ \A f \in healer.batch :
             (/\ HealerProbes(f)
              /\ files[f.id].status = COMPLETED
              /\ files[f.id].minio_path # NoPath
              /\ files[f.id].minio_path \notin objects)
                => /\ files'[f.id].status = PENDING
                   /\ files'[f.id].minio_path = NoPath]_vars

\* a transferred row is PENDING again, without path, and its object is gone
C11_Witness ==
    \E x \in Ids :
        /\ files[x].status = PENDING
        /\ files[x].content_hash # NoHash
        /\ files[x].minio_path = NoPath
        /\ FullPath(get_bucket_for_category(files[x].destination_category),
                    files[x].channel_id, files[x].message_id) \notin objects

\* C12: the probe of a row whose object is in the store, answered or failed, changes
\* no row, and the reconciler goes on with the rest of its batch.
C12_PresentObjectKept ==
    [][\A f \in healer.batch :
          (HealerProbes(f) /\ f.minio_path \in objects)
             => /\ files' = files
                /\ healer'.pc = IF healer'.batch = {} THEN "sleep" ELSE "check"]_vars

---------------------------------------------------------------------------
(* Properties of one run of the worker *)

\* the object key of row x under the category the run has loaded
RunKey(x) ==
    <<get_bucket_for_category(worker.category), files[x].channel_id, files[x].message_id>>

\* the category of row x is none of CATEGORIES
NoValidCategory(x) ==
    files[x].destination_category = NULL \/ files[x].destination_category \notin CATEGORIES

\* C13: a run on a QUEUED row with a category writes DOWNLOADING, then UPLOADING, then
\* puts the object under bucket/channel/message, then writes COMPLETED with that path
\* and the hash of the payload.
C13_TransferInOrder ==
    [][/\ (WorkerTake /\ files[Head(queue)].status = QUEUED /\ ~NoValidCategory(Head(queue)))
            => /\ files'[Head(queue)].status = DOWNLOADING
               /\ worker'.pc = "downloading"
       /\ (WorkerDownloaded /\ worker'.pc = "uploading")
            => /\ files'[worker.id].status = UPLOADING
               /\ objects' = objects
       /\ WorkerUploaded
            => /\ objects' = objects \cup {RunKey(worker.id)}
               /\ files'[worker.id].status # COMPLETED
       /\ WorkerCompleted
            => /\ files'[worker.id].status = COMPLETED
               /\ files'[worker.id].minio_path = RunKey(worker.id)
               /\ RunKey(worker.id) \in objects
               /\ files'[worker.id].content_hash = content[files[worker.id].message_id]]_vars

\* a row that never failed is COMPLETED with its path, its object and its hash
C13_Witness ==
    \E x \in Ids :
        /\ files[x].status = COMPLETED
        /\ files[x].retry_count = 0
        /\ files[x].error_message = NoError
        /\ files[x].minio_path \in objects
        /\ files[x].content_hash = content[files[x].message_id]

C15_QueuedIsScheduled ==
    boot.phase = "running"
        => \A x \in Ids : files[x].status = QUEUED
              => x \in Range(queue) \/ (worker.pc # "idle" /\ worker.id = x)

\* C16: when the id taken from the queue names a row that is neither QUEUED nor
\* DOWNLOADING, the worker changes no row and starts no transfer.
C16_OnlyQueuedIsTransferred ==
    [][(WorkerTake /\ files[Head(queue)].status \notin {QUEUED, DOWNLOADING})
          => /\ files' = files
             /\ worker'.pc = "idle"]_vars

\* C17: a run on a row without a valid category writes FAILED with the message, keeps
\* retry_count, and downloads and uploads nothing.
C17_NoCategoryFails ==
    [][(WorkerTake /\ NoValidCategory(Head(queue)))
          => /\ files'[Head(queue)].status = FAILED
             /\ files'[Head(queue)].error_message = ErrNoCategory
             /\ files'[Head(queue)].retry_count = files[Head(queue)].retry_count
             /\ worker'.pc = "idle"
             /\ staging' = staging
             /\ objects' = objects]_vars

\* a run has ended at the category check
C17_Witness ==
    \E x \in Ids :
        /\ files[x].status = FAILED
        /\ files[x].error_message = ErrNoCategory
        /\ worker.pc = "idle"

\* C18: a local file exists only for the row whose run is under way.
C18_NoStagingLeftBehind ==
    staging \subseteq (IF worker.pc \in {"downloading", "uploading"} THEN {worker.id} ELSE {})

\* C19: the notification starts with the step that writes COMPLETED and with no other;
\* its attempt, delivered or not, changes no row and ends the run.
C19_NotificationIsHarmless ==
    [][/\ (worker'.pc = "notifying" /\ worker.pc # "notifying")
            => /\ WorkerCompleted
               /\ files'[worker'.id].status = COMPLETED
       /\ WorkerNotified
            => /\ files' = files
               /\ worker'.pc = "idle"]_vars

\* the notification of a completed transfer is under way
C19_Witness ==
    /\ worker.pc = "notifying"
    /\ files[worker.id].status = COMPLETED

\* C20: a row with a path is COMPLETED.
C20_PathOnlyWhenCompleted ==
    \A x \in Ids : files[x].minio_path # NoPath => files[x].status = COMPLETED

---------------------------------------------------------------------------
(* Properties of the tasks running together *)

C22_StartsOnce ==
    /\ starts.recovered <= 1
    /\ Cardinality(TasksOf("worker")) <= 1
    /\ Cardinality(TasksOf("scanner")) <= 1
    /\ Cardinality(TasksOf("healing")) <= 1

\* C23: at most one row is DOWNLOADING or UPLOADING.
C23_OneItemInFlight ==
    Cardinality({x \in Ids : files[x].status \in {DOWNLOADING, UPLOADING}}) <= 1

---------------------------------------------------------------------------
(* Properties of failures by kind *)

\* C24: when the worker has stopped after a cancellation, no row is DOWNLOADING or
\* UPLOADING and no local file remains.
C24_CancelledBetweenItems ==
    worker.pc = "stopped"
        => /\ \A x \in Ids : files[x].status \notin {DOWNLOADING, UPLOADING}
           /\ staging = {}

\* C27: a run that ends because the channel cannot be resolved leaves the row
\* FAILED_PERMANENT with its retry_count.
C27_UnresolvedIsTerminal ==
    [][\A x \in Ids :
          (worker.id = x /\ WorkerResolveFails)
             => /\ files'[x].status = FAILED_PERMANENT
                /\ files'[x].retry_count = files[x].retry_count]_vars

\* C28: a run that ends because the source has disconnected leaves the row with its
\* retry_count and neither FAILED nor FAILED_PERMANENT.
C28_DisconnectKeepsBudget ==
    [][\A x \in Ids :
          (worker.id = x /\ WorkerDisconnected)
             => /\ files'[x].retry_count = files[x].retry_count
                /\ files'[x].status \notin {FAILED, FAILED_PERMANENT}]_vars

---------------------------------------------------------------------------
(* Properties of the scan cycle *)

\* the rows of table files that belong to channel c
RowsOf(fs, c) == {fs[i] : i \in {j \in DOMAIN fs : fs[j].channel_id = c}}

\* C25: whatever the scans of a cycle run into, the cycle scans every channel of its
\* list, in order: while it runs, the channels scanned and those to come make up the
\* list, and when it sleeps the channels scanned are the list.
C25_CycleScansEveryChannel ==
    /\ scanner.pc = "scan"
          => /\ scanner.todo # <<>>
             /\ scanner.done \o ChannelIds(scanner.todo) = ChannelIds(scanner.active)
    /\ scanner.pc = "sleep" => scanner.done = ChannelIds(scanner.active)

\* a cycle over several channels has ended, and the scan of its first channel failed
C25_Witness ==
    /\ scanner.pc = "sleep"
    /\ Len(scanner.done) >= 2
    /\ scanner.done[1] \in scanner.failed

\* C26: a cycle takes up no channel that is deactivated when it begins; a scan of the
\* cycle changes neither the rows nor the watermark of a channel outside the cycle's
\* list; and no step removes a channel row.
C26_DeactivatedIsSkipped ==
    [][/\ DOMAIN channels' = DOMAIN channels
       /\ ScannerBegin
            => \A c \in DOMAIN channels :
                  ~channels[c].is_active => c \notin Range(ChannelIds(scanner'.active))
       /\ ScannerChannel
            => \A c \in DOMAIN channels :
                  c \notin Range(ChannelIds(scanner.active))
                     => /\ channels'[c] = channels[c]
                        /\ RowsOf(files', c) = RowsOf(files, c)]_vars

\* a cycle that began with a channel deactivated has ended: the channel was left out,
\* its messages have no rows and its watermark stands
C26_Witness ==
    \E c \in DOMAIN channels :
        /\ ~channels[c].is_active
        /\ scanner.pc = "sleep"
        /\ scanner.done # <<>>
        /\ c \notin Range(ChannelIds(scanner.active))
        /\ nmsgs[c] > channels[c].last_scanned_message_id
        /\ RowsOf(files, c) = {}

\* the type is audio/..., or it is application/pdf
SupportedMime(mime) ==
    \/ Len(mime) = 2 /\ mime[1] = "audio"
    \/ mime = <<"application", "pdf">>

\* C29: where only the scanner writes, every row is of a message whose type is audio/*
\* or application/pdf and is PENDING with retry_count 0, no path, no hash and the
\* category its type gives (audio: messages, pdf: ror); and every message of such a
\* type that the last periodic scan examined has its row.
C29_SupportedBecomesPending ==
    /\ \A i \in Ids :
          LET mime == MimeOf(files[i].message_id)
          IN  /\ SupportedMime(mime)
              /\ files[i].status = PENDING
              /\ files[i].retry_count = 0
              /\ files[i].minio_path = NoPath
              /\ files[i].content_hash = NoHash
              /\ files[i].destination_category = IF mime[1] = "audio" THEN "messages" ELSE "ror"
    /\ scanner.chan # 0
          => \A j \in DOMAIN scanner.seen :
                SupportedMime(MimeOf(scanner.seen[j]))
                    => HasKey(files, scanner.chan, scanner.seen[j])

\* an audio message and a pdf message have their rows, and the last periodic scan
\* examined a video message, which has none
C29_Witness ==
    /\ \E i \in Ids : files[i].destination_category = "messages"
    /\ \E i \in Ids : files[i].destination_category = "ror"
    /\ \E j \in DOMAIN scanner.seen :
          /\ MimeOf(scanner.seen[j]) = <<"video", "mp4">>
          /\ ~HasKey(files, scanner.chan, scanner.seen[j])

---------------------------------------------------------------------------
(* Properties of the queue *)

\* the number of times x occurs in s
Count(s, x) == Cardinality({i \in DOMAIN s : s[i] = x})

\* the enqueues of id x that are under way: in the queue or suspended before it
Pending(q, p, x) == Count(q, x) + Count(p.waiting, x)

\* the operator approves or retries row x in this step
Enqueues(x) ==
    ApproveFile(x, NULL) \/ ApproveFileFull(x) \/ RetryFile(x) \/ RetryFileFull(x)

\* C30: the queue never holds more ids than its capacity; an approval or a retry adds
\* its id once, to the queue when there is room and to the suspended puts when there
\* is none; a suspended put can complete as soon as the queue has room, and doing so
\* moves its id to the end of the queue; the worker takes the head of the queue and
\* leaves the suspended puts alone.
C30_BoundedQueue ==
    /\ [](Len(queue) <= MaxQueue)
    /\ []((puts.waiting # <<>> /\ Len(queue) < MaxQueue) => ENABLED PutResumes)
    /\ [][/\ \A x \in Ids :
               Enqueues(x)
                  => /\ \A y \in Ids : Pending(queue', puts', y) = Pending(queue, puts, y) + (IF y = x THEN 1 ELSE 0)
                     /\ Len(queue) >= MaxQueue => queue' = queue
                     /\ Len(queue) < MaxQueue => queue' = Append(queue, x)
          /\ PutResumes
               => /\ \A y \in Ids : Pending(queue', puts', y) = Pending(queue, puts, y)
                  /\ queue' = Append(queue, puts'.resumed)
                  /\ Len(puts'.waiting) = Len(puts.waiting) - 1
          /\ WorkerTake
               => /\ queue' = Tail(queue)
                  /\ puts' = puts]_vars

\* a put that was suspended on the full queue has completed, and its id is queued
C30_Witness ==
    /\ puts.resumed # 0
    /\ puts.resumed \in Range(queue)
    /\ Len(queue) = MaxQueue

---------------------------------------------------------------------------
(* Properties of discovery and transfer together *)

\* a scan of some kind runs in this step
ScanStep ==
    \/ ScannerChannel
    \/ \E c \in Channels : ScanChannelNow(c)
    \/ \E c \in Channels : FullScan(c)

\* C31: a scan, periodic, manual or full, leaves every row that exists when it runs
\* with its status, category, path, hash and retry_count, and with its message.
C31_RescanKeepsRows ==
    [][ScanStep
         => \A i \in Ids :
               /\ i \in DOMAIN files'
               /\ files'[i].channel_id = files[i].channel_id
               /\ files'[i].message_id = files[i].message_id
               /\ files'[i].status = files[i].status
               /\ files'[i].destination_category = files[i].destination_category
               /\ files'[i].minio_path = files[i].minio_path
               /\ files'[i].content_hash = files[i].content_hash
               /\ files'[i].retry_count = files[i].retry_count]_vars

\* the last periodic scan examined the messages of two rows and inserted nothing,
\* and the rows stand COMPLETED, after a failure, and FAILED_PERMANENT
C31_Witness ==
    /\ scanner.chan # 0
    /\ scanner.new_count = 0
    /\ \E i \in Ids : \E j \in Ids :
          /\ files[i].status = COMPLETED
          /\ files[i].retry_count > 0
          /\ files[j].status = FAILED_PERMANENT
          /\ files[i].message_id \in Range(scanner.seen)
          /\ files[j].message_id \in Range(scanner.seen)

---------------------------------------------------------------------------
(* Properties of the duplicate check *)

\* C32: when the worker marks row x as a duplicate of row y, y is another row, carries
\* the hash of x's payload and is COMPLETED.
C32_DuplicateOfStoredOnly ==
    [][\A x \in Ids : \A y \in Ids :
          (/\ DownloadCompletes(x)
           /\ files'[x].status = FAILED_PERMANENT
           /\ files'[x].error_message = ErrDuplicate(y))
             => /\ y # x
                /\ files[y].content_hash = content[files[x].message_id]
                /\ files[y].status = COMPLETED]_vars

\* row x was COMPLETED and has been reverted by the reconciler: it carries the hash of
\* its transfer, no path, and no mark of a failure
Reverted(x) ==
    /\ files[x].content_hash # NoHash
    /\ files[x].minio_path = NoPath
    /\ files[x].error_message = NoError

\* C33: when the worker has downloaded a reverted row again, the row is not rejected:
\* it goes on to UPLOADING, whatever other rows carry its hash.
C33_RevertedIsTransferredAgain ==
    [][\A x \in Ids :
          (DownloadCompletes(x) /\ Reverted(x))
             => /\ files'[x].status = UPLOADING
                /\ worker'.pc = "uploading"]_vars

---------------------------------------------------------------------------
(* Properties of the retry action *)

\* C34: a FAILED row stays FAILED in every step but the retry of that row, which
\* writes QUEUED, appends the id to the queue and keeps retry_count; in particular the
\* worker starts no run on a FAILED row. No retry is accepted for a row that is
\* FAILED_PERMANENT.
C34_FailedWaitsForRetry ==
    [][\A x \in Ids :
          /\ (files[x].status = FAILED /\ files'[x] # files[x])
                => /\ RetryFile(x)
                   /\ files'[x].status = QUEUED
                   /\ files'[x].retry_count = files[x].retry_count
                   /\ queue' = Append(queue, x)
          /\ (files[x].status = FAILED /\ WorkerTake) => Head(queue) # x
          /\ files[x].status = FAILED_PERMANENT => ~(RetryFile(x) \/ RetryFileFull(x))]_vars

---------------------------------------------------------------------------
(* Properties of the order of transfers *)

\* a download_worker task takes an id in this step
TakeStep == WorkerTake \/ Worker2Take

\* C35: the ids leave the queue in the order they entered it: a step of a worker that
\* takes an id takes the one at the head, starts its run and leaves the others in
\* their order; every other step leaves the ids of the queue in place and adds ids,
\* if any, behind them; and recovery adds the QUEUED rows oldest first.
C35_FirstInFirstOut ==
    [][/\ TakeStep
            => /\ queue' = Tail(queue)
               /\ files'[Head(queue)].status = DOWNLOADING
               /\ \A x \in Ids \ {Head(queue)} : files'[x].status = files[x].status
       /\ ~TakeStep
            => /\ Len(queue') >= Len(queue)
               /\ SubSeq(queue', 1, Len(queue)) = queue
       /\ \A k \in 1 .. MaxCalls :
             StartEnqueue(k) => queue' = queue \o get_queued_file_ids(files)]_vars

\* row 1, recovered at the start, has been transferred, and the run of row 2, approved
\* behind it, is under way
C35_Witness ==
    /\ starts.recovered = 1
    /\ files[1].status = COMPLETED
    /\ worker.id = 2
    /\ worker.pc = "downloading"
    /\ queue = <<>>

---------------------------------------------------------------------------
(* Properties of the worker's progress *)

\* C36: whatever the runs end with, the worker comes back to its loop again and
\* again, and no id stays in the queue for ever: the worker goes on taking ids unless
\* the queue ends up empty for good.
C36_WorkerKeepsRunning ==
    /\ []<>(worker.pc = "idle")
    /\ []<><<WorkerGets>>_vars \/ <>[](queue = <<>>)

\* C38: when the worker has taken an id and is to put it back after a connection
\* error, the put completes and the worker is back in its loop.
C38_RequeueCompletes ==
    (worker.pc = "requeue") ~> (worker.pc = "idle")

---------------------------------------------------------------------------
(* Properties of the start-up under load *)

\* C37: once recover_queue is called, it returns and the worker's loop begins.
C37_RecoveryTerminates ==
    (boot.phase = "recover") ~> (boot.phase = "running")

---------------------------------------------------------------------------
(* Properties of the manual scan *)

\* C39: a manual scan leaves table channels as it is, whatever rows it inserts, and a
\* step that changes a watermark is a step of the periodic scanner.
C39_ManualScanKeepsWatermark ==
    [][/\ (\E c \in Channels : ScanChannelNow(c)) => channels' = channels
       /\ (\E c \in Channels :
              channels'[c].last_scanned_message_id # channels[c].last_scanned_message_id)
            => ScannerChannel]_vars

\* rows have been found while no periodic scan has run, and the watermark is where it
\* was
C39_Witness ==
    /\ scanner.chan = 0
    /\ files # <<>>
    /\ \A c \in Channels : Watermark(c) = 0

---------------------------------------------------------------------------
(* Properties of the rows *)

\* C40: every QUEUED row has a category of CATEGORIES, and every COMPLETED row has a
\* path and a hash.
C40_RowsAreWellFormed ==
    \A x \in Ids :
        /\ files[x].status = QUEUED => files[x].destination_category \in CATEGORIES
        /\ files[x].status = COMPLETED
              => /\ files[x].minio_path # NoPath
                 /\ files[x].content_hash # NoHash

====
